---------------------------- MODULE Spec2Model ----------------------------
(***************************************************************************)
(* A model of solve.py, the interactive Wordle solver: the Constraint      *)
(* Store of WordleSolver (correct_letters, misplaced_letters,              *)
(* letter_counts), its candidate set (words), and the loop of              *)
(* run_until_solved, one action per step of the loop.  Words are           *)
(* sequences of letters (1-based, as TLA+ sequences are); an offset is the *)
(* 0-based index the source uses, so the letter at offset o is word[o+1].  *)
(***************************************************************************)
EXTENDS Integers, Sequences, FiniteSets, TLC

VARIABLES
    word_len,          \* self.word_len
    words,             \* self.words, the candidate set
    correct_letters,   \* self.correct_letters: offset -> letter or None
    misplaced_letters, \* self.misplaced_letters: letter -> set of offsets
    letter_counts,     \* self.letter_counts: letter -> <<min, max>>
    pc,                \* position of run_until_solved
    suggestions,       \* local of run_until_solved: <<score, word>> pairs
    idx,               \* position of the for loop in suggestions (1-based)
    suggestion,        \* local of run_until_solved: the word on offer
    feedback,          \* local of run_until_solved: None or the accepted feedback
    result,            \* the word run_until_solved returned, if it did
    dictionary,        \* history: the set read_dictionary returned
    agreeing,          \* history: the words of the dictionary that, as the
                       \* answer, give every feedback accepted so far
    unknown_seen,      \* history: a feedback with an Unknown was accepted
    unordered_seen,    \* history: a feedback was accepted that marks a letter
                       \* Incorrect to the left of a Misplaced copy of it
    wanted,            \* the num_suggestions find_suggestions is called with
    secret,            \* the word a truthful provider compares the guesses
                       \* with (None when the provider answers as it likes)
    rounds             \* history: the feedbacks a truthful provider has given

vars == <<word_len, words, correct_letters, misplaced_letters, letter_counts,
          pc, suggestions, idx, suggestion, feedback, result, dictionary,
          agreeing, unknown_seen, unordered_seen, wanted, secret, rounds>>

-----------------------------------------------------------------------------
(* Bounds of the model. *)

\* the word lengths a session is started with
WordLens == {1, 2, 3}

\* the largest dictionary a session is started with
MaxDict == 3

\* the largest number of suggestions find_suggestions is asked for when it
\* is called on its own
MaxWanted == 4

\* the letters the dictionaries of Init are written in: three letters up to
\* length 2, two at length 3 (the store ranges over ascii_lowercase)
DictLetters(n) == IF n <= 2 THEN {"a", "b", "c"} ELSE {"a", "b"}

-----------------------------------------------------------------------------
(* Values of the program. *)

\* string.ascii_lowercase, in its order, cut down to the letters the
\* dictionaries of the model are written in and one more ("z").  A letter no
\* word of the dictionary holds counts 0 in every word and is never part of
\* a suggestion, so all such letters have the same bounds at all times; "z"
\* stands for them.
ascii_lowercase == << "a", "b", "c", "e", "l", "n", "r", "s", "t", "z" >>

Letters == { ascii_lowercase[i] : i \in 1..Len(ascii_lowercase) }

UNKNOWN == "_"

INCORRECT == "x"

MISPLACED == "?"

CORRECT == "+"

GuessState == {UNKNOWN, INCORRECT, MISPLACED, CORRECT}

\* None, where a letter is expected
None == "None"

\* None, where a word or a feedback is expected
Nothing == << >>

\* the start value of min_repeats in find_min_max_letter_repeats
NoMin == 999

\* the number of suggestions run_until_solved asks for
NumSuggestions == 10

Offsets(n) == 0..(n - 1)

Min2(a, b) == IF a <= b THEN a ELSE b

Max2(a, b) == IF a >= b THEN a ELSE b

\* Counter(word)[letter]
Counter(word, letter) == Cardinality({ i \in 1..Len(word) : word[i] = letter })

\* the words of a length over a set of letters
WordsOver(ls, n) == [1..n -> ls]

-----------------------------------------------------------------------------
(* find_min_max_letter_repeats: min starts at 999 and max at 0, each word   *)
(* lowers the one and raises the other.                                     *)

SetMin(S) == CHOOSE x \in S : \A y \in S : x <= y

SetMax(S) == CHOOSE x \in S : \A y \in S : x >= y

\* Mutant of find_min_max_letter_repeats: min_repeats starts at 0, as
\* max_repeats does.
find_min_max_letter_repeats_zero(ws) ==
    [ min_repeats |-> [ l \in Letters |->
                          SetMin({0} \cup { Counter(w, l) : w \in ws }) ],
      max_repeats |-> [ l \in Letters |->
                          SetMax({0} \cup { Counter(w, l) : w \in ws }) ] ]

find_min_max_letter_repeats(ws) ==
    [ min_repeats |-> [ l \in Letters |->
                          SetMin({NoMin} \cup { Counter(w, l) : w \in ws }) ],
      max_repeats |-> [ l \in Letters |->
                          SetMax({0} \cup { Counter(w, l) : w \in ws }) ] ]

-----------------------------------------------------------------------------
(* process_feedback.  The loop over the positions accumulates the two       *)
(* per-round counters (defaultdict(int): a letter not counted reads 0) and  *)
(* writes correct_letters and misplaced_letters; the bounds are updated     *)
(* after the loop, for the letters each counter holds.                      *)

RECURSIVE ScanFeedback(_, _, _, _)
ScanFeedback(sugg, fb, acc, offset) ==
    IF offset = Len(sugg) THEN acc
    ELSE
      LET letter == sugg[offset + 1]
          res    == fb[offset + 1]
          a1 == IF res = INCORRECT
                THEN [acc EXCEPT !.incorrect_letter_counts[letter] = @ + 1,
                                 !.misplaced_letters[letter] = @ \cup {offset}]
                ELSE acc
          a2 == IF res = MISPLACED
                THEN [a1 EXCEPT !.correct_letter_counts[letter] = @ + 1,
                                !.misplaced_letters[letter] = @ \cup {offset}]
                ELSE IF res = CORRECT
                THEN [a1 EXCEPT !.correct_letter_counts[letter] = @ + 1,
                                !.correct_letters[offset] = letter]
                ELSE a1
      IN ScanFeedback(sugg, fb, a2, offset + 1)

\* Mutant of process_feedback: an Incorrect letter is taken to be absent
\* from the answer (max := 0) whatever its other occurrences were marked.
process_feedback_absent(cl, ml, lc, sugg, fb) ==
    LET acc == ScanFeedback(sugg, fb,
                   [ correct_letter_counts   |-> [l \in Letters |-> 0],
                     incorrect_letter_counts |-> [l \in Letters |-> 0],
                     misplaced_letters       |-> ml,
                     correct_letters         |-> cl ], 0)
    IN [ correct_letters   |-> acc.correct_letters,
         misplaced_letters |-> acc.misplaced_letters,
         letter_counts     |-> [ l \in Letters |->
             << IF acc.correct_letter_counts[l] > 0
                THEN Max2(acc.correct_letter_counts[l], lc[l][1])
                ELSE lc[l][1],
                IF acc.incorrect_letter_counts[l] > 0
                THEN 0
                ELSE lc[l][2] >> ] ]

\* Mutant of process_feedback: the minimum is assigned the round's count
\* instead of being raised to it.
process_feedback_assign(cl, ml, lc, sugg, fb) ==
    LET acc == ScanFeedback(sugg, fb,
                   [ correct_letter_counts   |-> [l \in Letters |-> 0],
                     incorrect_letter_counts |-> [l \in Letters |-> 0],
                     misplaced_letters       |-> ml,
                     correct_letters         |-> cl ], 0)
    IN [ correct_letters   |-> acc.correct_letters,
         misplaced_letters |-> acc.misplaced_letters,
         letter_counts     |-> [ l \in Letters |->
             << IF acc.correct_letter_counts[l] > 0
                THEN acc.correct_letter_counts[l]
                ELSE lc[l][1],
                IF acc.incorrect_letter_counts[l] > 0
                THEN Min2(Counter(sugg, l) - acc.incorrect_letter_counts[l], lc[l][2])
                ELSE lc[l][2] >> ] ]

process_feedback(cl, ml, lc, sugg, fb) ==
    LET acc == ScanFeedback(sugg, fb,
                   [ correct_letter_counts   |-> [l \in Letters |-> 0],
                     incorrect_letter_counts |-> [l \in Letters |-> 0],
                     misplaced_letters       |-> ml,
                     correct_letters         |-> cl ], 0)
    IN [ correct_letters   |-> acc.correct_letters,
         misplaced_letters |-> acc.misplaced_letters,
         letter_counts     |-> [ l \in Letters |->
             << IF acc.correct_letter_counts[l] > 0
                THEN Max2(acc.correct_letter_counts[l], lc[l][1])
                ELSE lc[l][1],
                IF acc.incorrect_letter_counts[l] > 0
                THEN Min2(Counter(sugg, l) - acc.incorrect_letter_counts[l], lc[l][2])
                ELSE lc[l][2] >> ] ]

-----------------------------------------------------------------------------
(* filter_words: the four tests a word passes to be kept, in the source's   *)
(* order.                                                                   *)

WrongFixedLetter(w, cl) ==
    \E offset \in DOMAIN cl : cl[offset] # None /\ cl[offset] # w[offset + 1]

AtForbiddenOffset(w, ml) ==
    \E offset \in Offsets(Len(w)) : offset \in ml[w[offset + 1]]

OwnLetterOutOfBounds(w, lc) ==
    \E letter \in { w[i] : i \in 1..Len(w) } :
        ~ (lc[letter][1] <= Counter(w, letter) /\ Counter(w, letter) <= lc[letter][2])

AnyLetterOutOfBounds(w, lc) ==
    \E letter \in DOMAIN lc :
        ~ (lc[letter][1] <= Counter(w, letter) /\ Counter(w, letter) <= lc[letter][2])

\* Mutant of filter_words: the test of the fixed letters is left out.
filter_words_no_fixed(ws, cl, ml, lc) ==
    { w \in ws : /\ ~ AtForbiddenOffset(w, ml)
                 /\ ~ OwnLetterOutOfBounds(w, lc)
                 /\ ~ AnyLetterOutOfBounds(w, lc) }

\* Mutant of filter_words: the test of the forbidden offsets is left out.
filter_words_no_forbidden(ws, cl, ml, lc) ==
    { w \in ws : /\ ~ WrongFixedLetter(w, cl)
                 /\ ~ OwnLetterOutOfBounds(w, lc)
                 /\ ~ AnyLetterOutOfBounds(w, lc) }

\* Mutant of filter_words: only the letters of the word are held against
\* the bounds (the pass over the whole alphabet is left out).
filter_words_own_letters(ws, cl, ml, lc) ==
    { w \in ws : /\ ~ WrongFixedLetter(w, cl)
                 /\ ~ AtForbiddenOffset(w, ml)
                 /\ ~ OwnLetterOutOfBounds(w, lc) }

\* Mutant of filter_words: one of the words kept is lost on the way.
filter_words_drop_one(ws, cl, ml, lc) ==
    LET kept == { w \in ws : /\ ~ WrongFixedLetter(w, cl)
                             /\ ~ AtForbiddenOffset(w, ml)
                             /\ ~ OwnLetterOutOfBounds(w, lc)
                             /\ ~ AnyLetterOutOfBounds(w, lc) }
    IN IF Cardinality(kept) > 1 THEN kept \ {CHOOSE w \in kept : TRUE} ELSE kept

\* Mutant of filter_words: when no word is left the search starts again
\* from the whole dictionary.
filter_words_restart(ws, cl, ml, lc) ==
    LET kept == { w \in ws : /\ ~ WrongFixedLetter(w, cl)
                             /\ ~ AtForbiddenOffset(w, ml)
                             /\ ~ OwnLetterOutOfBounds(w, lc)
                             /\ ~ AnyLetterOutOfBounds(w, lc) }
    IN IF kept = {} THEN dictionary ELSE kept

filter_words(ws, cl, ml, lc) ==
    { w \in ws : /\ ~ WrongFixedLetter(w, cl)
                 /\ ~ AtForbiddenOffset(w, ml)
                 /\ ~ OwnLetterOutOfBounds(w, lc)
                 /\ ~ AnyLetterOutOfBounds(w, lc) }

-----------------------------------------------------------------------------
(* letter_word_counts and find_suggestions.  sorted(scores, reverse=True)   *)
(* orders the (score, word) tuples by score and then by word, largest       *)
(* first.                                                                   *)

\* counts[position][letter] of letter_word_counts
letter_word_counts(ws, position, letter) ==
    Cardinality({ w \in ws : w[position + 1] = letter })

\* Mutant of letter_word_counts_words: the word popped is not added back.
letter_word_counts_pop_only(ws) == ws \ { CHOOSE w \in ws : TRUE }

\* the set letter_word_counts leaves in words: word = words.pop(), and
\* words.add(word) before the words are counted
letter_word_counts_words(ws) ==
    LET word == CHOOSE w \in ws : TRUE
    IN (ws \ {word}) \cup {word}

RECURSIVE SumScore(_, _, _)
SumScore(ws, w, position) ==
    IF position = Len(w) THEN 0
    ELSE letter_word_counts(ws, position, w[position + 1]) + SumScore(ws, w, position + 1)

LetterOrd(l) == CHOOSE i \in 1..Len(ascii_lowercase) : ascii_lowercase[i] = l

\* u < v as Python compares two strings of one length
WordLess(u, v) ==
    \E i \in 1..Len(u) : /\ \A j \in 1..(i - 1) : u[j] = v[j]
                         /\ LetterOrd(u[i]) < LetterOrd(v[i])

\* p < q as Python compares two (score, word) tuples
TupleLess(p, q) == p[1] < q[1] \/ (p[1] = q[1] /\ WordLess(p[2], q[2]))

RECURSIVE SortedReverse(_)
SortedReverse(S) ==
    IF S = {} THEN << >>
    ELSE LET top == CHOOSE p \in S : \A q \in S \ {p} : TupleLess(q, p)
         IN <<top>> \o SortedReverse(S \ {top})

\* Mutant of find_suggestions: sorted without reverse=True.
find_suggestions_ascending(ws, num_suggestions) ==
    LET scores == { << SumScore(ws, w, 0), w >> : w \in ws }
        sorted == SortedReverse(scores)
    IN [ i \in 1..Min2(num_suggestions, Len(sorted)) |-> sorted[Len(sorted) - i + 1] ]

find_suggestions(ws, num_suggestions) ==
    LET scores == { << SumScore(ws, w, 0), w >> : w \in ws }
        sorted == SortedReverse(scores)
    IN SubSeq(sorted, 1, Min2(num_suggestions, Len(sorted)))

-----------------------------------------------------------------------------
(* The feedback of the game, as the claims state it: Correct where the      *)
(* guess and the answer hold the same letter; the other copies of a letter  *)
(* in the guess are Misplaced, left to right, for as many copies as the     *)
(* answer holds unmatched, and Incorrect beyond that.                       *)

Unmatched(guess, answer, letter) ==
    Cardinality({ i \in 1..Len(answer) : answer[i] = letter /\ guess[i] # letter })

EarlierMisses(guess, answer, i) ==
    Cardinality({ j \in 1..(i - 1) : guess[j] = guess[i] /\ answer[j] # guess[j] })

Compare(guess, answer) ==
    [ i \in 1..Len(guess) |->
        IF guess[i] = answer[i] THEN CORRECT
        ELSE IF EarlierMisses(guess, answer, i) < Unmatched(guess, answer, guess[i])
        THEN MISPLACED
        ELSE INCORRECT ]

HasUnknown(fb) == \E i \in 1..Len(fb) : fb[i] = UNKNOWN

Unordered(guess, fb) ==
    \E i, j \in 1..Len(guess) :
        i < j /\ guess[i] = guess[j] /\ fb[i] = INCORRECT /\ fb[j] = MISPLACED

-----------------------------------------------------------------------------
(* The session.                                                             *)

history == <<agreeing, unknown_seen, unordered_seen>>

session == <<wanted, secret, rounds>>

\* what input_guess(word_len) returns when it returns: a list of word_len
\* symbols (a text of another length is asked for again)
Feedbacks(n) == [1..n -> GuessState]

Dictionaries(n) ==
    { D \in SUBSET WordsOver(DictLetters(n), n) : Cardinality(D) <= MaxDict }

\* WordleSolver.__init__ over the dictionary read_dictionary returns
Constructed(n, D) ==
    /\ word_len = n
    /\ dictionary = D
    /\ words = D
    /\ correct_letters = [offset \in Offsets(n) |-> None]
    /\ misplaced_letters = [l \in Letters |-> {}]
    /\ letter_counts = [l \in Letters |->
                          << find_min_max_letter_repeats(D).min_repeats[l],
                             find_min_max_letter_repeats(D).max_repeats[l] >>]
    /\ suggestions = << >>
    /\ idx = 0
    /\ suggestion = Nothing
    /\ feedback = Nothing
    /\ result = Nothing
    /\ agreeing = D
    /\ unknown_seen = FALSE
    /\ unordered_seen = FALSE
    /\ rounds = 0

\* a solver about to run run_until_solved with a provider that answers as
\* it likes
InitSolver(n, D) ==
    /\ Constructed(n, D)
    /\ pc = "loop"
    /\ wanted = NumSuggestions
    /\ secret = Nothing

crane == << "c", "r", "a", "n", "e" >>

slate == << "s", "l", "a", "t", "e" >>

trace == << "t", "r", "a", "c", "e" >>

\* the session of Scenario A
InitA == InitSolver(5, {crane, slate, trace})

\* a dictionary of more words than run_until_solved asks suggestions for
BigDictionary ==
    WordsOver({"a", "b", "c"}, 2) \cup { << "a", "e" >>, << "e", "a" >> }

\* a session over the big dictionary
InitBig == InitSolver(2, BigDictionary)

Init == \E n \in WordLens : \E D \in Dictionaries(n) : InitSolver(n, D)

\* while len(self.words) > 1: suggestions = find_suggestions(self.words, 10);
\* the for loop offers the first of them
Suggest ==
    /\ pc = "loop"
    /\ Cardinality(words) > 1
    /\ suggestions' = find_suggestions(words, wanted)
    /\ words' = letter_word_counts_words(words)
    /\ idx' = 1
    /\ suggestion' = suggestions'[1][2]
    /\ feedback' = Nothing
    /\ pc' = "input"
    /\ UNCHANGED <<word_len, correct_letters, misplaced_letters,
                   letter_counts, result, dictionary, history, session>>

\* input_guess raises SkipWordError and another suggestion is left
Skip ==
    /\ pc = "input"
    /\ idx < Len(suggestions)
    /\ idx' = idx + 1
    /\ suggestion' = suggestions[idx + 1][2]
    /\ UNCHANGED <<word_len, words, correct_letters, misplaced_letters,
                   letter_counts, pc, suggestions, feedback, result,
                   dictionary, history, session>>

\* Mutant of SkipLast: when the last suggestion is declined the first one
\* is offered again.
SkipLast_again ==
    /\ pc = "input"
    /\ idx = Len(suggestions)
    /\ idx' = 1
    /\ suggestion' = suggestions[1][2]
    /\ UNCHANGED <<word_len, words, correct_letters, misplaced_letters,
                   letter_counts, pc, suggestions, feedback, result,
                   dictionary, history, session>>

\* input_guess raises SkipWordError for the last suggestion: feedback is
\* None after the for loop and the exception is raised
SkipLast ==
    /\ pc = "input"
    /\ idx = Len(suggestions)
    /\ pc' = "raised"
    /\ result' = Nothing
    /\ UNCHANGED <<word_len, words, correct_letters, misplaced_letters,
                   letter_counts, suggestions, idx, suggestion, feedback,
                   dictionary, history, session>>

\* Mutant of Accept: the feedback is processed for the first suggestion of
\* the round, whichever is on offer.
Accept_first ==
    /\ pc = "input"
    /\ \E fb \in Feedbacks(word_len) :
         LET store == process_feedback(correct_letters, misplaced_letters,
                                       letter_counts, suggestions[1][2], fb)
         IN /\ feedback' = fb
            /\ correct_letters' = store.correct_letters
            /\ misplaced_letters' = store.misplaced_letters
            /\ letter_counts' = store.letter_counts
            /\ agreeing' = { A \in agreeing : Compare(suggestion, A) = fb }
            /\ unknown_seen' = (unknown_seen \/ HasUnknown(fb))
            /\ unordered_seen' = (unordered_seen \/ Unordered(suggestion, fb))
    /\ pc' = "filter"
    /\ UNCHANGED <<word_len, words, suggestions, idx, suggestion, result,
                   dictionary, session>>

\* input_guess returns a feedback: break, then process_feedback
Accept ==
    /\ pc = "input"
    /\ \E fb \in Feedbacks(word_len) :
         LET store == process_feedback(correct_letters, misplaced_letters,
                                       letter_counts, suggestion, fb)
         IN /\ feedback' = fb
            /\ correct_letters' = store.correct_letters
            /\ misplaced_letters' = store.misplaced_letters
            /\ letter_counts' = store.letter_counts
            /\ agreeing' = { A \in agreeing : Compare(suggestion, A) = fb }
            /\ unknown_seen' = (unknown_seen \/ HasUnknown(fb))
            /\ unordered_seen' = (unordered_seen \/ Unordered(suggestion, fb))
    /\ pc' = "filter"
    /\ UNCHANGED <<word_len, words, suggestions, idx, suggestion, result,
                   dictionary, session>>

\* self.filter_words()
Filter ==
    /\ pc = "filter"
    /\ words' = filter_words(words, correct_letters, misplaced_letters, letter_counts)
    /\ pc' = "tighten"
    /\ UNCHANGED <<word_len, correct_letters, misplaced_letters, letter_counts,
                   suggestions, idx, suggestion, feedback, result, dictionary, history, session>>

\* the dict comprehension that follows find_min_max_letter_repeats
retighten(lc, ws) ==
    [ l \in DOMAIN lc |->
        << Max2(lc[l][1], find_min_max_letter_repeats(ws).min_repeats[l]),
           Min2(lc[l][2], find_min_max_letter_repeats(ws).max_repeats[l]) >> ]

Tighten ==
    /\ pc = "tighten"
    /\ letter_counts' = retighten(letter_counts, words)
    /\ pc' = "loop"
    /\ UNCHANGED <<word_len, words, correct_letters, misplaced_letters,
                   suggestions, idx, suggestion, feedback, result, dictionary, history, session>>

\* Mutant of ReturnWord: the last guess is returned, not the word left.
ReturnWord_guess ==
    /\ pc = "loop"
    /\ Cardinality(words) = 1
    /\ result' = IF suggestion # Nothing THEN suggestion ELSE CHOOSE w \in words : TRUE
    /\ words' = {}
    /\ pc' = "returned"
    /\ UNCHANGED <<word_len, correct_letters, misplaced_letters, letter_counts,
                   suggestions, idx, suggestion, feedback, dictionary, history, session>>

\* the loop is left with one word: return self.words.pop()
ReturnWord ==
    /\ pc = "loop"
    /\ Cardinality(words) = 1
    /\ result' = CHOOSE w \in words : TRUE
    /\ words' = {}
    /\ pc' = "returned"
    /\ UNCHANGED <<word_len, correct_letters, misplaced_letters, letter_counts,
                   suggestions, idx, suggestion, feedback, dictionary, history, session>>

\* the loop is left with no word: return None
ReturnNone ==
    /\ pc = "loop"
    /\ words = {}
    /\ result' = Nothing
    /\ pc' = "returned"
    /\ UNCHANGED <<word_len, words, correct_letters, misplaced_letters,
                   letter_counts, suggestions, idx, suggestion, feedback,
                   dictionary, history, session>>

Next ==
    \/ Suggest
    \/ Skip
    \/ SkipLast
    \/ Accept
    \/ Filter
    \/ Tighten
    \/ ReturnWord
    \/ ReturnNone

Spec == Init /\ [][Next]_vars

SpecA == InitA /\ [][Next]_vars

SpecBig == InitBig /\ [][Next]_vars

-----------------------------------------------------------------------------
(* The two functions called on their own, on the words of a solver just    *)
(* constructed.                                                             *)

InitCall ==
    \E n \in WordLens : \E D \in Dictionaries(n) \ {{}} : \E k \in 0..MaxWanted :
        /\ Constructed(n, D)
        /\ pc = "call"
        /\ wanted = k
        /\ secret = Nothing

\* suggestions = find_suggestions(self.words, k)
CallSuggestions ==
    /\ pc = "call"
    /\ suggestions' = find_suggestions(words, wanted)
    /\ words' = letter_word_counts_words(words)
    /\ pc' = "ranked"
    /\ UNCHANGED <<word_len, correct_letters, misplaced_letters, letter_counts,
                   idx, suggestion, feedback, result, dictionary, history, session>>

\* min_repeats, max_repeats = find_min_max_letter_repeats(self.words), kept
\* in letter_counts as __init__ keeps them
CallRepeats ==
    /\ pc = "call"
    /\ letter_counts' = [l \in Letters |->
                           << find_min_max_letter_repeats(words).min_repeats[l],
                              find_min_max_letter_repeats(words).max_repeats[l] >>]
    /\ pc' = "counted"
    /\ UNCHANGED <<word_len, words, correct_letters, misplaced_letters,
                   suggestions, idx, suggestion, feedback, result, dictionary,
                   history, session>>

NextCall ==
    \/ CallSuggestions
    \/ CallRepeats

SpecCall == InitCall /\ [][NextCall]_vars

-----------------------------------------------------------------------------
(* The session with a truthful provider: it holds a word of the dictionary, *)
(* accepts the first suggestion of every round and answers with the         *)
(* feedback of that word.  No suggestion is declined, so the exception is   *)
(* not raised.                                                              *)

InitTruth ==
    \E n \in WordLens :
       \E D \in { E \in Dictionaries(n) : Cardinality(E) >= 2 } :
          \E A \in D :
             /\ Constructed(n, D)
             /\ pc = "loop"
             /\ wanted = NumSuggestions
             /\ secret = A

\* input_guess returns the feedback of the answer for the first suggestion:
\* break, then process_feedback
AcceptTruthful ==
    /\ pc = "input"
    /\ idx = 1
    /\ LET fb == Compare(suggestion, secret)
           store == process_feedback(correct_letters, misplaced_letters,
                                     letter_counts, suggestion, fb)
       IN /\ feedback' = fb
          /\ correct_letters' = store.correct_letters
          /\ misplaced_letters' = store.misplaced_letters
          /\ letter_counts' = store.letter_counts
          /\ agreeing' = { A \in agreeing : Compare(suggestion, A) = fb }
          /\ unknown_seen' = (unknown_seen \/ HasUnknown(fb))
          /\ unordered_seen' = (unordered_seen \/ Unordered(suggestion, fb))
    /\ rounds' = rounds + 1
    /\ pc' = "filter"
    /\ UNCHANGED <<word_len, words, suggestions, idx, suggestion, result,
                   dictionary, wanted, secret>>

NextTruth ==
    \/ Suggest
    \/ AcceptTruthful
    \/ Filter
    \/ Tighten
    \/ ReturnWord

\* the program runs on while it has a step to take
SpecTruth == InitTruth /\ [][NextTruth]_vars /\ WF_vars(NextTruth)

-----------------------------------------------------------------------------
(* The claims.                                                              *)

\* the copies of a letter in the guess that the feedback marks with one of
\* the symbols of S
Marked(guess, fb, letter, S) ==
    Cardinality({ i \in 1..Len(guess) : guess[i] = letter /\ fb[i] \in S })

\* C1 (soundness): a word of the dictionary that, taken as the answer, gives
\* every feedback accepted so far is in the candidate set after each
\* process_feedback + filter_words pass and after each re-tightening.
C1_Soundness == pc \in {"tighten", "loop"} => agreeing \subseteq words

\* C1 witness: a pass that removed a word and kept the answer.
C1_Witness ==
    /\ pc = "tighten"
    /\ feedback # Nothing
    /\ agreeing # {}
    /\ agreeing \subseteq words
    /\ words # dictionary

\* C2 as stated: after rounds whose feedbacks are any sequences over
\* Incorrect/Misplaced/Correct, every candidate, taken as the answer, gives
\* exactly the feedback accepted in each round.
C2_AnyFeedback ==
    (pc # "filter" /\ ~ unknown_seen) => words \subseteq agreeing

\* C2 amended: the same, for feedbacks that mark no copy of a letter
\* Incorrect to the left of a Misplaced copy of the same letter.
C2_OrderedFeedback ==
    (pc # "filter" /\ ~ unknown_seen /\ ~ unordered_seen) => words \subseteq agreeing

\* C2 witness: two candidates left after an ordered feedback that removed a
\* word.
C2_Witness ==
    /\ pc = "loop"
    /\ feedback # Nothing
    /\ ~ unknown_seen
    /\ ~ unordered_seen
    /\ Cardinality(words) >= 2
    /\ words # dictionary
    /\ words \subseteq agreeing

\* C3 (monotonic shrink): no step adds a word to the candidate set, and the
\* candidate set is a subset of the dictionary in every state.
C3_Shrinks ==
    /\ [](words \subseteq dictionary)
    /\ [][words' \subseteq words]_vars

\* C3 witness: filter_words removed some of the words and kept others.
C3_Witness ==
    /\ pc = "tighten"
    /\ words # {}
    /\ words # dictionary
    /\ words \subseteq dictionary

\* C4 (bounds only tighten): in every step, for every letter, the minimum
\* does not fall and the maximum does not rise.
C4_BoundsTighten ==
    [][\A l \in Letters : /\ letter_counts'[l][1] >= letter_counts[l][1]
                          /\ letter_counts'[l][2] <= letter_counts[l][2]]_vars

\* C4 witness: the bounds were re-tightened against the statistics of an
\* empty candidate set.
C4_Witness ==
    /\ pc = "loop"
    /\ feedback # Nothing
    /\ words = {}
    /\ dictionary # {}
    /\ \A l \in Letters : letter_counts[l] = << NoMin, 0 >>

\* C5 (bounds do not cross): while some word of the dictionary, taken as
\* the answer, gives every feedback accepted, min <= max for every letter,
\* in every state (between process_feedback and filter_words too).
C5_NoCrossing ==
    agreeing # {} => \A l \in Letters : letter_counts[l][1] <= letter_counts[l][2]

\* C5 witness: the state between process_feedback and filter_words, after a
\* truthful feedback that lowered a maximum.
C5_Witness ==
    /\ pc = "filter"
    /\ agreeing # {}
    /\ \E i \in 1..word_len :
          /\ feedback[i] = INCORRECT
          /\ letter_counts[suggestion[i]][1] = letter_counts[suggestion[i]][2]
          /\ letter_counts[suggestion[i]][2] >= 1

\* C6 (correct_letters is write-once): a position that holds a letter holds
\* the same letter after every step.
C6_WriteOnce ==
    [][\A offset \in Offsets(word_len) :
          correct_letters[offset] # None
              => correct_letters'[offset] = correct_letters[offset]]_vars

\* C6 witness: process_feedback has run on a feedback that is not Correct at
\* a position fixed in an earlier round, and the position is still fixed.
C6_Witness ==
    /\ pc = "filter"
    /\ \E offset \in Offsets(word_len) :
          /\ feedback[offset + 1] \in {INCORRECT, MISPLACED}
          /\ correct_letters[offset] # None

\* the three conditions of the claim C7 for a word to be retained
Retained(w) ==
    /\ \A offset \in Offsets(word_len) :
          correct_letters[offset] # None => w[offset + 1] = correct_letters[offset]
    /\ \A offset \in Offsets(word_len) :
          offset \notin misplaced_letters[w[offset + 1]]
    /\ \A l \in Letters :
          /\ letter_counts[l][1] <= Counter(w, l)
          /\ Counter(w, l) <= letter_counts[l][2]

\* C7 (what filter_words retains): the candidate set after filter_words is
\* exactly the words of the set before it that have the fixed letters, no
\* letter at an offset forbidden for it, and a count within the bounds for
\* every letter of the alphabet.
C7_FilterExact ==
    [][pc = "filter" => words' = { w \in words : Retained(w) }]_vars

\* C7 witness: filter_words removed a word only for missing a letter whose
\* minimum is positive.
C7_Witness ==
    /\ pc = "tighten"
    /\ words # {}
    /\ \E w \in dictionary \ words :
          /\ ~ WrongFixedLetter(w, correct_letters)
          /\ ~ AtForbiddenOffset(w, misplaced_letters)
          /\ ~ OwnLetterOutOfBounds(w, letter_counts)
          /\ \E l \in Letters : Counter(w, l) = 0 /\ letter_counts[l][1] > 0

\* C8 (idempotence): filter_words leaves the store as it is, and run again
\* on its own result with that store it returns the result unchanged.
C8_Idempotent ==
    [][pc = "filter" =>
          /\ filter_words(words', correct_letters', misplaced_letters',
                          letter_counts') = words'
          /\ correct_letters' = correct_letters
          /\ misplaced_letters' = misplaced_letters
          /\ letter_counts' = letter_counts]_vars

\* C8 witness: filter_words removed a word and left two or more.
C8_Witness ==
    /\ pc = "tighten"
    /\ Cardinality(words) >= 2
    /\ words # dictionary
    /\ filter_words(words, correct_letters, misplaced_letters, letter_counts) = words

\* the letter is guessed twice, the first copy marked Correct and the second
\* Incorrect
CorrectThenIncorrect(l) ==
    /\ feedback # Nothing
    /\ Counter(suggestion, l) = 2
    /\ \E i, j \in 1..word_len :
          /\ i < j
          /\ suggestion[i] = l /\ feedback[i] = CORRECT
          /\ suggestion[j] = l /\ feedback[j] = INCORRECT

\* C9 (bounds of a repeated letter): process_feedback sets, for a letter
\* with n copies in the guess, C of them Correct or Misplaced and K >= 1
\* Incorrect (C + K = n), min := max(old min, C) and max := min(old max,
\* n - K); for a letter guessed twice, Correct then Incorrect, max is 1 and
\* min >= 1 after process_feedback, and every word filter_words keeps holds
\* the letter once.
C9_RepeatedLetter ==
    /\ [][(pc = "input" /\ pc' = "filter") =>
            \A l \in Letters :
               LET n == Counter(suggestion, l)
                   C == Marked(suggestion, feedback', l, {MISPLACED, CORRECT})
                   K == Marked(suggestion, feedback', l, {INCORRECT})
               IN (K >= 1 /\ C + K = n) =>
                     letter_counts'[l] = << Max2(letter_counts[l][1], C),
                                            Min2(letter_counts[l][2], n - K) >>]_vars
    /\ [](\A l \in Letters :
            /\ (pc = "filter" /\ CorrectThenIncorrect(l)) =>
                  (letter_counts[l][2] = 1 /\ letter_counts[l][1] >= 1)
            /\ (pc = "tighten" /\ CorrectThenIncorrect(l)) =>
                  \A w \in words : Counter(w, l) = 1)

\* C9 witness: words are left after a guess with a letter marked Correct
\* and then Incorrect.
C9_Witness ==
    /\ pc = "tighten"
    /\ words # {}
    /\ \E l \in Letters :
          /\ CorrectThenIncorrect(l)
          /\ letter_counts[l][2] = 1
          /\ \A w \in words : Counter(w, l) = 1

\* the feedback of Scenario A
FeedbackA == << INCORRECT, INCORRECT, MISPLACED, INCORRECT, CORRECT >>

\* filter_words has run on crane and the feedback of Scenario A, and the
\* store holds the positions of that one feedback
ScenarioA ==
    /\ pc = "tighten"
    /\ dictionary = {crane, slate, trace}
    /\ suggestion = crane
    /\ feedback = FeedbackA
    /\ correct_letters = [offset \in Offsets(5) |-> IF offset = 4 THEN "e" ELSE None]
    /\ misplaced_letters =
          [l \in Letters |-> { offset \in Offsets(4) : crane[offset + 1] = l }]

\* C10 as stated: Scenario A leaves exactly {trace}.
C10_LeavesTrace == ScenarioA => words = {trace}

\* C10 amended: Scenario A leaves no word: trace has "a" at offset 2, where
\* the feedback forbids it, and holds "c" and "r", whose maximum is 0.
C10_LeavesNothing == ScenarioA => words = {}

\* C10 witness: Scenario A has happened, and trace breaks the constraints.
C10_Witness ==
    /\ ScenarioA
    /\ AtForbiddenOffset(trace, misplaced_letters)
    /\ letter_counts["c"][2] = 0
    /\ letter_counts["r"][2] = 0

\* C11 (terminal SOLVED): from the head of the loop a suggestion is offered
\* exactly when more than one word is left; when filter_words leaves one
\* word the re-tightening keeps it, no suggestion follows and that word is
\* returned; a returned word is in the dictionary and meets the store.
C11_Solved ==
    /\ [][pc = "loop" => IF Cardinality(words) > 1
                         THEN pc' = "input"
                         ELSE pc' = "returned"]_vars
    /\ [][(pc = "tighten" /\ Cardinality(words) = 1) =>
             (pc' = "loop" /\ words' = words)]_vars
    /\ [][(pc = "loop" /\ Cardinality(words) = 1) =>
             (pc' = "returned" /\ words = {result'})]_vars
    /\ []((pc = "returned" /\ result # Nothing) =>
             (result \in dictionary /\ Retained(result)))

\* C11 witness: a word was returned after a feedback that left it alone.
C11_Witness ==
    /\ pc = "returned"
    /\ result # Nothing
    /\ feedback # Nothing
    /\ result # suggestion
    /\ Cardinality(dictionary) > 1

\* the store contradicts itself: a letter's minimum is above its maximum,
\* or an offset is fixed to a letter and forbidden for it
Contradiction ==
    \/ \E l \in Letters : letter_counts[l][1] > letter_counts[l][2]
    \/ \E offset \in Offsets(word_len) :
          /\ correct_letters[offset] # None
          /\ offset \in misplaced_letters[correct_letters[offset]]

\* C12 (terminal EXHAUSTED): when the store contradicts itself after
\* process_feedback, filter_words leaves no word, the re-tightening goes
\* through to the head of the loop, and run_until_solved returns None: no
\* word and no exception.
C12_Exhausted ==
    /\ [][(pc = "filter" /\ Contradiction) => (pc' = "tighten" /\ words' = {})]_vars
    /\ [][(pc = "tighten" /\ words = {}) => (pc' = "loop" /\ words' = {})]_vars
    /\ [][(pc = "loop" /\ words = {}) => (pc' = "returned" /\ result' = Nothing)]_vars
    /\ [](Contradiction => /\ pc \in {"filter", "tighten", "loop", "returned"}
                           /\ pc # "filter" => words = {}
                           /\ pc = "returned" => result = Nothing)

\* C12 witness: None was returned after a feedback that forbade a fixed
\* letter at its offset and a re-tightening over the empty candidate set.
C12_Witness ==
    /\ pc = "returned"
    /\ result = Nothing
    /\ feedback # Nothing
    /\ \A l \in Letters : letter_counts[l][1] = NoMin
    /\ \E offset \in Offsets(word_len) :
          /\ correct_letters[offset] # None
          /\ offset \in misplaced_letters[correct_letters[offset]]

\* C13 (Scenario E): the suggestions of a round are the min(10, number of
\* candidates) ranked first; a decline moves to the next of them, leaving
\* store and candidates alone, and a decline of the last one raises "No
\* suggestions accepted" in that round: no feedback was processed in it and
\* no step follows.
C13_AllDeclined ==
    /\ [](pc = "input" =>
            /\ Len(suggestions) = Min2(NumSuggestions, Cardinality(words))
            /\ idx \in 1..Len(suggestions))
    /\ [][(pc = "input" /\ pc' # "filter") =>
            /\ IF idx < Len(suggestions)
               THEN pc' = "input" /\ idx' = idx + 1
               ELSE pc' = "raised"
            /\ UNCHANGED <<words, correct_letters, misplaced_letters,
                           letter_counts, suggestions, feedback>>]_vars
    /\ [](pc = "raised" => /\ feedback = Nothing
                           /\ idx = Len(suggestions)
                           /\ Cardinality(words) > 1)
    /\ [][pc # "raised"]_vars

\* C13 witness: the ten suggestions made of eleven candidates were declined
\* and the exception was raised.
C13_Witness ==
    /\ pc = "raised"
    /\ idx = NumSuggestions
    /\ Cardinality(words) > NumSuggestions
    /\ feedback = Nothing

\* the positions of the store after a step are those before it with the
\* marks of the feedback fb put on the letters of the word g
AppliedTo(g, fb) ==
    /\ \A offset \in Offsets(word_len) :
          correct_letters'[offset] =
              IF fb[offset + 1] = CORRECT THEN g[offset + 1]
              ELSE correct_letters[offset]
    /\ \A l \in Letters :
          misplaced_letters'[l] = misplaced_letters[l] \cup
              { offset \in Offsets(word_len) :
                   g[offset + 1] = l /\ fb[offset + 1] \in {INCORRECT, MISPLACED} }

\* C14 (skip protocol): the suggestions of a round are in descending score
\* order and offered from the first on, one at a time; a decline moves to
\* the next one and changes neither store nor candidates (the words
\* declined are still candidates); the feedback accepted is processed for
\* the word on offer.
C14_SkipProtocol ==
    /\ [](pc = "input" =>
            /\ suggestion = suggestions[idx][2]
            /\ \A i, j \in 1..Len(suggestions) :
                  i < j => suggestions[i][1] >= suggestions[j][1]
            /\ \A i \in 1..idx : suggestions[i][2] \in words)
    /\ [][(pc = "loop" /\ pc' = "input") => idx' = 1]_vars
    /\ [][(pc = "input" /\ pc' = "input") =>
            /\ idx' = idx + 1
            /\ UNCHANGED <<words, correct_letters, misplaced_letters,
                           letter_counts, suggestions>>]_vars
    /\ [][(pc = "input" /\ pc' = "filter") =>
            /\ suggestion' = suggestion
            /\ suggestion = suggestions[idx][2]
            /\ AppliedTo(suggestion, feedback')]_vars

\* C14 witness: a feedback was accepted for the third suggestion, of a lower
\* score than the first, after two declines.
C14_Witness ==
    /\ pc = "filter"
    /\ idx = 3
    /\ suggestion = suggestions[3][2]
    /\ suggestions[3][1] < suggestions[1][1]
    /\ \E offset \in Offsets(word_len) :
          /\ feedback[offset + 1] = CORRECT
          /\ correct_letters[offset] = suggestion[offset + 1]
          /\ correct_letters[offset] # suggestions[1][2][offset + 1]

\* the positions at which a word of ws holds the letter w holds there,
\* counted over the words
Score(w, ws) ==
    Cardinality({ pv \in (1..Len(w)) \X ws : pv[2][pv[1]] = w[pv[1]] })

\* C15 (ranking): find_suggestions(words, k) on a non-empty set returns
\* min(k, number of words) distinct (score, word) pairs of words of the set,
\* each with the score of the claim, in non-increasing score order, and no
\* word left out scores higher than a word returned.
C15_Ranking ==
    pc = "ranked" =>
        LET n == Len(suggestions)
            returned == { suggestions[i][2] : i \in 1..n }
        IN /\ n = Min2(wanted, Cardinality(dictionary))
           /\ Cardinality(returned) = n
           /\ \A i \in 1..n :
                 /\ suggestions[i][2] \in dictionary
                 /\ suggestions[i][1] = Score(suggestions[i][2], dictionary)
           /\ \A i, j \in 1..n : i < j => suggestions[i][1] >= suggestions[j][1]
           /\ \A w \in dictionary \ returned : \A i \in 1..n :
                 Score(w, dictionary) <= suggestions[i][1]

\* C15 witness: two suggestions of different scores were returned and a
\* word was left out.
C15_Witness ==
    /\ pc = "ranked"
    /\ Len(suggestions) = 2
    /\ wanted < Cardinality(dictionary)
    /\ suggestions[1][1] > suggestions[2][1]

\* C16 (letter statistics): for a non-empty set, min_repeats and
\* max_repeats of every letter of the alphabet are the least and the largest
\* count of the letter in a word of the set, so min <= max, and 0 and 0 for
\* a letter in no word; the set is as it was.
C16_Repeats ==
    pc = "counted" =>
        /\ words = dictionary
        /\ \A l \in Letters :
              /\ \E w \in words : Counter(w, l) = letter_counts[l][1]
              /\ \A w \in words : Counter(w, l) >= letter_counts[l][1]
              /\ \E w \in words : Counter(w, l) = letter_counts[l][2]
              /\ \A w \in words : Counter(w, l) <= letter_counts[l][2]
              /\ letter_counts[l][1] <= letter_counts[l][2]
              /\ (\A w \in words : \A i \in 1..Len(w) : w[i] # l)
                    => letter_counts[l] = << 0, 0 >>

\* C16 witness: a letter in every word, more often in one than in another,
\* and a letter in no word.
C16_Witness ==
    /\ pc = "counted"
    /\ \E l \in Letters :
          /\ letter_counts[l][1] >= 1
          /\ letter_counts[l][2] > letter_counts[l][1]
    /\ letter_counts["z"] = << 0, 0 >>

\* C17 (store/candidate consistency at round boundaries): at the head of the
\* loop, initially and after each filter + re-tightening, every candidate
\* has the fixed letters, no letter at an offset forbidden for it and a
\* count within the re-tightened bounds for every letter; so has every word
\* on offer.
C17_Consistent ==
    /\ pc = "loop" => \A w \in words : Retained(w)
    /\ pc = "input" => (suggestion \in words /\ Retained(suggestion))

\* C17 witness: the head of the loop after a round that removed a word,
\* fixed a letter and raised a minimum in the re-tightening, two words left.
C17_Witness ==
    /\ pc = "loop"
    /\ feedback # Nothing
    /\ Cardinality(words) >= 2
    /\ words # dictionary
    /\ \E offset \in Offsets(word_len) : correct_letters[offset] # None
    /\ \E l \in Letters :
          /\ letter_counts[l][1] > Marked(suggestion, feedback, l, {MISPLACED, CORRECT})
          /\ letter_counts[l][1] > find_min_max_letter_repeats(dictionary).min_repeats[l]
    /\ \A w \in words : Retained(w)

\* the feedback marks every position Correct
AllCorrect(fb) == \A i \in 1..Len(fb) : fb[i] = CORRECT

\* C18 (progress per accepted round): filter_words, run after a feedback
\* with an Incorrect or a Misplaced, removes the guess, so the candidate set
\* gets strictly smaller; run after a feedback Correct at every position it
\* leaves exactly the guess.
C18_Progress ==
    [][pc = "filter" =>
          /\ (\E i \in 1..word_len : feedback[i] \in {INCORRECT, MISPLACED}) =>
                /\ suggestion \in words
                /\ suggestion \notin words'
                /\ words' \subseteq words
                /\ words' # words
          /\ AllCorrect(feedback) => words' = {suggestion}]_vars

\* C18 witness: the guess was removed by a feedback with a Misplaced and a
\* Correct, and words are left.
C18_Witness ==
    /\ pc = "tighten"
    /\ \E i, j \in 1..word_len :
          feedback[i] = MISPLACED /\ feedback[j] = CORRECT
    /\ suggestion \in dictionary
    /\ suggestion \notin words
    /\ words # {}

\* C19 (termination under truthful feedback): with a dictionary of two or
\* more words and a provider that accepts every first suggestion and
\* answers with the feedback of a word of the dictionary, run_until_solved
\* returns in the end; the candidate set is never empty at the head of the
\* loop, the word returned is the provider's, and no more feedbacks were
\* accepted than the dictionary has words.
C19_Terminates ==
    /\ <>(pc = "returned")
    /\ [](pc = "loop" => words # {})
    /\ [](rounds <= Cardinality(dictionary))
    /\ [](pc = "returned" => result = secret)

\* C19 witness: the provider's word was returned after two rounds, the
\* last of which guessed another word.
C19_Witness ==
    /\ pc = "returned"
    /\ result = secret
    /\ rounds = 2
    /\ suggestion # secret

\* C20 (ranking has no effect on session state): the step that calls
\* find_suggestions leaves the candidate set with the members it had and
\* does not change correct_letters, misplaced_letters or letter_counts.
C20_RankingFrame ==
    [][(pc = "loop" /\ pc' = "input") =>
          /\ words' = words
          /\ correct_letters' = correct_letters
          /\ misplaced_letters' = misplaced_letters
          /\ letter_counts' = letter_counts]_vars

\* C20 witness: the suggestions of a second round were made of every one of
\* the candidates, and the candidates are all there.
C20_Witness ==
    /\ pc = "input"
    /\ idx = 1
    /\ words # dictionary
    /\ Cardinality(words) >= 2
    /\ Len(suggestions) = Cardinality(words)
    /\ \A w \in words : \E i \in 1..Len(suggestions) : suggestions[i][2] = w
    /\ \E offset \in Offsets(word_len) : correct_letters[offset] # None

=============================================================================
